---- MODULE Spec2Model ----
(***************************************************************************)
(* The pack-managing workflow of the bot (bot/exts/mc/pack.py) together    *)
(* with the shared download state of the bot shell (bot/bot.py).           *)
(*                                                                         *)
(* One add session is modelled as a set of asyncio tasks that share one    *)
(* event loop: the manage coroutine, one callback task per button press    *)
(* and one callback task per modal submission.  The loop runs the tasks of *)
(* its ready queue in FIFO order, one step (the code between two awaits)   *)
(* at a time.  The download and the normalization run on worker threads of *)
(* the pool and interleave freely with the loop.                           *)
(*                                                                         *)
(* The remove flow (manage called with no link) and the shutdown of the    *)
(* shell (Bot.close) have their own specifications, RemoveSpec and         *)
(* CloseSpec, over the same state; ModeSpec takes both modes of manage.    *)
(* UrlSpec runs the link check (bot/utils/checks.py) over every url,       *)
(* LongSpec the add session over sources of an hour.  SeqSpec lets add     *)
(* sessions follow one another and RaceSpec runs a second session beside   *)
(* the first; both share the bot's one progress snapshot and its pool.     *)
(***************************************************************************)
EXTENDS Integers, Sequences, FiniteSets, TLC

(* ------------------------------ settings ------------------------------ *)

max_download_size == 20971520

max_filesize == 5242880

(* ------------------------------- bounds ------------------------------- *)

\* Button presses the platform dispatches to the confirmation view.
MaxPresses == 2

\* Submissions of the clip-settings modal.
MaxSubmits == 1

\* "downloading" progress callbacks of one download.
MaxHooks == 1

\* Largest duration (seconds) of the ceiling specification.
MaxSeconds == 400

\* Invocations of Bot.close.
MaxCloses == 4

\* Messages of the pack channel that carry attachments.
MaxMessages == 2

\* Selections the platform dispatches to one removal dropdown.
MaxSelects == 2

\* Invocations of the remove flow, one after the other.
MaxInvocations == 2

\* Characters of a url text.
MaxUrlLen == 4

\* Add sessions, one after the other.
MaxSessions == 2

\* The entries of bot/resources/supported_extensions.json.
SUPPORTED_EXTENSIONS == {<<".", "m">>}

(* ------------------------------- inputs ------------------------------- *)

\* A url is its text, a sequence of characters, with the names of the
\* registered extractors whose suitable(url) answers true.  An empty
\* registry leaves no name.
Chars == {"a", "m", ".", "?"}

ExtractorNames == {"generic", "youtube"}

UrlTexts == UNION {[1..n -> Chars] : n \in 1..MaxUrlLen}

Urls == [text : UrlTexts, suitable : SUBSET ExtractorNames]

\* No link: the remove button passes None.
NoLink == [text |-> <<>>, suitable |-> {}]

\* A link a site extractor takes, and one only the generic extractor takes.
SupportedLink == [text |-> <<"a">>, suitable |-> {"generic", "youtube"}]

UnsupportedLink == [text |-> <<"a">>, suitable |-> {"generic"}]

Links == {SupportedLink, UnsupportedLink}

\* What manage is called with.
AnyLinks == Links \cup {NoLink}

\* The <<duration (seconds), size (bytes)>> the extractor reports in a
\* session: a source within the publish size, one twice the publish size,
\* and one over the download size.
Sources == {<<100, 5242880>>, <<300, 10485760>>, <<300, 20971521>>}

\* Sources within the publish size: a short one and an hour long one.
LongSources == {<<100, 5242880>>, <<3600, 5242880>>}

\* Sizes of the ceiling specification; 0 makes the ratio's division fail.
WideSizes == {0, 1, 4096, 1048576, 5242880, 5242881, 10485760, 20971521}

\* Max-publish-size limits the ceiling is compared under.
FilesizeLimits == {0, 1, 2621440, 5242879, 5242880}

\* The text of a time field: Blank (left empty), or the two numbers of a
\* five character "NN:NN" text.  <<1, 75>> is a text that strptime("%M:%S")
\* refuses.
Blank == <<>>

StartTexts == {Blank, <<2, 0>>, <<1, 75>>}

EndTexts == {Blank, <<0, 30>>, <<1, 30>>, <<5, 0>>}

(* ------------------------------ functions ----------------------------- *)

RECURSIVE GCD(_, _)
GCD(a, b) == IF b = 0 THEN a ELSE GCD(b, a % b)

\* int(limit * (seconds / size)) for size > 0: the floor of limit*seconds/size,
\* computed on the fraction reduced by gcd(limit, size).
ScaledDuration(seconds, sz, limit) ==
    LET g == GCD(limit, sz)
    IN  IF g = 0 THEN 0 ELSE ((limit \div g) * seconds) \div (sz \div g)

\* The ceiling without its clamp to the original duration.
MaxDurationUncapped(d, sz, limit) ==
    ScaledDuration((d \div 60) * 60 + (d % 60), sz, limit)

\* The ceiling from a ratio that drops the seconds of divmod(d, 60).
MaxDurationMinutes(d, sz, limit) ==
    LET md == ScaledDuration((d \div 60) * 60, sz, limit)
    IN  IF md > d THEN d ELSE md

\* The max trim ceiling: the duration whose share of the size stays below
\* the limit, clamped to the original duration.
MaxDuration(d, sz, limit) ==
    LET ratio_seconds == (d \div 60) * 60 + (d % 60)
        md == ScaledDuration(ratio_seconds, sz, limit)
    IN  IF md > d THEN d ELSE md

\* f"{minutes:02}:{seconds:02}" of divmod(d, 60).
FormatTime(d) == <<d \div 60, d % 60>>

\* datetime.strptime(text, "%M:%S") succeeds.
WellFormed(t) == t # Blank /\ t[1] \in 0..59 /\ t[2] \in 0..59

\* minute * 60 + second of a parsed time.
ToSeconds(t) == t[1] * 60 + t[2]

\* value or default
OrDefault(t, default) == IF t = Blank THEN default ELSE t

\* if start_time or end_time != original_duration: the range checks run.
RangeChecked(start, end, d) == start # 0 \/ end # d

\* The range checks without the comparison of start and end.
RangeReportNoOrder(start, end, d, maxd) ==
    IF ~RangeChecked(start, end, d) THEN "ok"
    ELSE IF start > d THEN "start_invalid"
    ELSE IF end > maxd THEN "end_invalid"
    ELSE "ok"

\* The report of the first range check that fails, "ok" when none does.
RangeReport(start, end, d, maxd) ==
    IF ~RangeChecked(start, end, d) THEN "ok"
    ELSE IF start > d THEN "start_invalid"
    ELSE IF end > maxd THEN "end_invalid"
    ELSE IF start > end THEN "start_gt_end"
    ELSE "ok"

\* A link check that lets every link through.
is_url_supported_any(l) == TRUE

\* str.endswith(suffix)
EndsWith(text, suffix) ==
    /\ Len(suffix) <= Len(text)
    /\ SubSeq(text, Len(text) - Len(suffix) + 1, Len(text)) = suffix

\* is_url_supported(url): the url ends with one of the supported extensions,
\* or an extractor other than 'generic' is suitable for it.
is_url_supported(url) ==
    \/ \E suffix \in SUPPORTED_EXTENSIONS : EndsWith(url.text, suffix)
    \/ \E name \in url.suitable : name # "generic"

\* A mode test that takes every session for a remove session.
HasLinkNever(l) == FALSE

\* if link:
HasLink(l) == l.text # <<>>

\* normalize_sound(path, start_time, end_time) on a sound of d seconds: the
\* seconds it exports.  The slice is taken only `if end_time:`, and a slice
\* stops at the end of the sound.
ClipSeconds(start, end, d) ==
    LET lo == IF start > d THEN d ELSE start
        hi == IF end > d THEN d ELSE end
    IN  IF end = 0 THEN d ELSE IF hi > lo THEN hi - lo ELSE 0

\* The size limit taken one byte too high.
TooBigOffByOne(sz) == sz > max_download_size + 1

\* if size > settings.audio.max_download_size
TooBig(sz) == sz > max_download_size

(* -------------------------------- state ------------------------------- *)

VARIABLES
    link,               \* the session's link
    original_duration,  \* info["duration"]
    size,               \* info["filesize"]
    max_duration,       \* the max trim ceiling
    mpc,                \* position of the manage coroutine
    decision,           \* branch taken on view.value: none, timeout, accept, cancel
    start_time,         \* parsed start (seconds), -1 before
    end_time,           \* parsed end (seconds), -1 before
    report,             \* the final message sent to the user
    crashed,            \* the exception that left manage unhandled
    view_value,         \* View.value: "None", "True", "False"
    view_stopped,       \* the view's stopped future: pending, or who resolved it
    modal_open,         \* the modal is registered for a submission
    modal_stopped,      \* Modal._stopped is done
    modal_submitted,    \* the user submitted the modal at least once
    modal_start,        \* children[1].value
    modal_end,          \* children[2].value
    btn,                \* the Button.callback tasks
    mod,                \* the Modal.callback tasks
    presses,            \* [add |-> n, cancel |-> n] presses dispatched
    ready,              \* the event loop's ready queue
    ydl_progress,       \* Bot.ydl_progress
    dl_job,             \* the download job of the pool
    dl_submits,         \* downloads submitted to the pool
    hooks,              \* "downloading" callbacks of the download
    norm_job,           \* the normalization job of the pool
    timer_cancel,       \* async_timeout has cancelled the manage task
    unknown_seen,       \* the polling loop left on an unrecognised status
    edited,             \* the messages manage has edited
    published,          \* a file was sent to the pack channel
    upc,                \* position of the PersistentView.upload task
    extract_calls,      \* calls of ydl.extract_info
    extract_failed,     \* extract_info raised
    prompts,            \* confirmation prompts sent
    norm_submits,       \* normalization jobs submitted to the pool
    publishes,          \* files sent to the pack channel
    added_reports,      \* success reports sent
    channel,            \* the pack channel's messages, newest first
    sound_files,        \* the (message, attachment) pairs manage fetched
    options,            \* the options of the removal dropdown
    values,             \* the dropdown's selected value, NoValue before
    dropdown_value,     \* the removal view's value, NoValue for None
    selects,            \* selections dispatched to the removal view
    deleted,            \* the messages this invocation deleted, in order
    removed_reports,    \* "successfully removed" reports sent
    invocations,        \* invocations of the remove flow
    options_log,        \* the options of each invocation so far
    cpc,                \* position of each invocation of Bot.close
    pool,               \* the worker pool: open or shutdown
    http_session,       \* the network session: absent, open or closed
    session_closes,     \* times the network session went from open to closed
    close_log,          \* what Bot.close released, in order
    session_no,         \* the number of the add session, in order of start
    others,             \* the sessions other than this one whose download runs
    other_hooks,        \* "downloading" callbacks of those downloads
    oggs,               \* the sessions whose download has an exported .ogg
    timed_out,          \* the earlier sessions that ended by TimeoutError
    last_hook,          \* the session whose download called the hook last
    peer_pc,            \* position of a second, concurrent add session
    shown,              \* the sessions whose progress this session displayed
    left_on,            \* the session whose dict ended this session's loop
    norm_file,          \* the session whose file was given to normalize_sound
    pub_file            \* the session whose .ogg this session published

vars == <<link, original_duration, size, max_duration, mpc, decision,
          start_time, end_time, report, crashed, view_value, view_stopped,
          modal_open, modal_stopped, modal_submitted, modal_start, modal_end,
          btn, mod, presses, ready, ydl_progress, dl_job, dl_submits, hooks,
          norm_job, timer_cancel, unknown_seen, edited, published, upc,
          extract_calls, extract_failed, prompts, norm_submits, publishes,
          added_reports, channel, sound_files, options, values, dropdown_value,
          selects, deleted, removed_reports, invocations, options_log,
          cpc, pool, http_session, session_closes, close_log,
          session_no, others, other_hooks, oggs, timed_out, last_hook,
          peer_pc, shown, left_on, norm_file, pub_file>>

metaVars == <<link, original_duration, size, max_duration>>
histVars == <<extract_calls, extract_failed, prompts, norm_submits, publishes,
              added_reports>>
removeVars == <<channel, sound_files, options, values, dropdown_value, selects,
                deleted, removed_reports, invocations, options_log>>
closeVars == <<cpc, pool, http_session, session_closes, close_log>>
ownVars == <<shown, left_on, norm_file, pub_file>>
sharedVars == <<session_no, others, other_hooks, oggs, timed_out, last_hook,
                peer_pc>>
multiVars == <<ownVars, sharedVars>>
otherVars == <<removeVars, closeVars, multiVars>>
sessionVars == <<decision, start_time, end_time, report, crashed>>
viewVars == <<view_value, view_stopped>>
modalVars == <<modal_open, modal_stopped, modal_submitted, modal_start, modal_end>>
poolVars == <<ydl_progress, dl_job, dl_submits, hooks, norm_job>>
outVars == <<unknown_seen, edited, published>>

Manage == <<"manage", 0>>
ButtonTask(i) == <<"button", i>>
ModalTask(j) == <<"modal", j>>

\* Bot.__init__: the initial snapshot has every key, status and filename "".
InitialProgress ==
    [status |-> "", filename |-> "", keys |-> {"filename", "total_bytes"},
     owner |-> 0]

\* Positions where manage is running (it holds the event loop).
RunningPcs == {"poll", "poll_downloading", "poll_else", "post_poll", "conv"}

LoopFree == mpc \notin RunningPcs

InQueue(t) == \E k \in 1..Len(ready) : ready[k] = t

\* The value of a dropdown or a view that holds none.
NoValue == <<>>

\* The state after Bot.__init__ and the cog's setup, before any session;
\* `session` is Bot.http_session.
InitState(session) ==
    /\ upc = "idle"
    /\ extract_calls = 0 /\ extract_failed = FALSE /\ prompts = 0
    /\ norm_submits = 0 /\ publishes = 0 /\ added_reports = 0
    /\ channel = <<>> /\ sound_files = <<>> /\ options = <<>>
    /\ values = NoValue /\ dropdown_value = NoValue /\ selects = 0
    /\ deleted = <<>> /\ removed_reports = 0
    /\ invocations = 0 /\ options_log = <<>>
    /\ cpc = [k \in 1..MaxCloses |-> "idle"]
    /\ pool = "open" /\ http_session = session
    /\ session_closes = 0 /\ close_log = <<>>
    /\ link = NoLink /\ original_duration = 0 /\ size = 0 /\ max_duration = 0
    /\ mpc = "start" /\ decision = "none"
    /\ start_time = -1 /\ end_time = -1
    /\ report = "none" /\ crashed = "none"
    /\ view_value = "None" /\ view_stopped = "pending"
    /\ modal_open = FALSE /\ modal_stopped = FALSE /\ modal_submitted = FALSE
    /\ modal_start = Blank /\ modal_end = Blank
    /\ btn = [i \in 1..MaxPresses |-> [kind |-> "none", pc |-> "none"]]
    /\ mod = [j \in 1..MaxSubmits |-> "none"]
    /\ presses = [add |-> 0, cancel |-> 0]
    /\ ready = <<>>
    /\ ydl_progress = InitialProgress
    /\ dl_job = "idle" /\ dl_submits = 0 /\ hooks = 0 /\ norm_job = "idle"
    /\ timer_cancel = FALSE /\ unknown_seen = FALSE
    /\ edited = {} /\ published = FALSE
    /\ session_no = 1 /\ others = {} /\ other_hooks = 0 /\ oggs = {}
    /\ timed_out = {} /\ last_hook = 0 /\ peer_pc = "none"
    /\ shown = {} /\ left_on = 0 /\ norm_file = 0 /\ pub_file = 0

\* Bot.__init__ always builds the network session.
Init == InitState("open")

(* -------------------- the panel's upload button ----------------------- *)

\* The user presses "Upload from YouTube": PersistentView.upload builds the
\* URL modal and runs to `await interaction.response.send_modal(modal)`.
UploadPressed ==
    /\ mpc = "start" /\ upc = "idle"
    /\ upc' = "http"
    /\ UNCHANGED <<metaVars, histVars, otherVars, mpc, sessionVars, viewVars,
                   modalVars, btn, mod, presses, ready, poolVars, timer_cancel,
                   outVars>>

\* The response to send_modal arrives: upload awaits modal.wait(), which
\* has no timeout.
UploadModalSent ==
    /\ upc = "http"
    /\ upc' = "wait_modal"
    /\ UNCHANGED <<metaVars, histVars, otherVars, mpc, sessionVars, viewVars,
                   modalVars, btn, mod, presses, ready, poolVars, timer_cancel,
                   outVars>>

\* The user submits the URL modal (its field is required): Modal.callback
\* runs to `await interaction.response.send_message(...)`.
UploadSubmit(l) ==
    /\ upc = "wait_modal"
    /\ upc' = "submitted"
    /\ link' = l
    /\ UNCHANGED <<original_duration, size, max_duration, histVars, otherVars,
                   mpc, sessionVars, viewVars, modalVars, btn, mod, presses,
                   ready, poolVars, timer_cancel, outVars>>

\* Modal.callback resumes and stops the modal: upload is woken.
UploadModalCallback ==
    /\ upc = "submitted"
    /\ upc' = "woken"
    /\ UNCHANGED <<metaVars, histVars, otherVars, mpc, sessionVars, viewVars,
                   modalVars, btn, mod, presses, ready, poolVars, timer_cancel,
                   outVars>>

(* ------------------------- manage: up to the prompt ------------------- *)

\* manage from its call to `await view.wait()`: the link check, the
\* extraction (which raises when `ok` is false), the ceiling and the
\* confirmation prompt.  manage is called by the slash command, or by
\* upload with the URL of its modal.
ManageStart(l, ok, d, sz) ==
    /\ mpc = "start" /\ HasLink(l)
    /\ \/ upc = "idle"
       \/ upc = "woken" /\ l = link
    /\ upc' = IF upc = "woken" THEN "manage" ELSE upc
    /\ link' = l
    /\ IF ~is_url_supported(l)
       THEN /\ report' = "not_supported"
            /\ mpc' = "done"
            /\ UNCHANGED <<original_duration, size, max_duration, crashed,
                           extract_calls, extract_failed, prompts>>
       ELSE /\ extract_calls' = extract_calls + 1
            /\ IF ~ok
               THEN /\ extract_failed' = TRUE
                    /\ crashed' = "DownloadError"
                    /\ mpc' = "done"
                    /\ UNCHANGED <<original_duration, size, max_duration, prompts>>
               ELSE /\ original_duration' = d
                    /\ size' = sz
                    /\ UNCHANGED extract_failed
                    /\ IF sz = 0
                       THEN /\ crashed' = "ZeroDivisionError"
                            /\ mpc' = "done"
                            /\ UNCHANGED <<max_duration, prompts>>
                       ELSE /\ max_duration' = MaxDuration(d, sz, max_filesize)
                            /\ prompts' = prompts + 1
                            /\ mpc' = "wait_view"
                            /\ UNCHANGED crashed
            /\ UNCHANGED report
    /\ UNCHANGED <<norm_submits, publishes, added_reports, otherVars, decision,
                   start_time, end_time, viewVars, modalVars, btn, mod,
                   presses, ready, poolVars, timer_cancel, outVars>>

(* ------------------------------ the prompt ---------------------------- *)

\* The confirmation view is in the view store: a press is dispatched and
\* the timeout can fire.
ViewActive == mpc = "wait_view" /\ view_stopped = "pending"

NextPress == presses.add + presses.cancel + 1

\* View.stop() called by a callback (`who`), or the timeout's dispatch: the
\* first call resolves the stopped future and wakes manage, later calls do
\* nothing.
StopView(who) ==
    IF view_stopped = "pending"
    THEN /\ view_stopped' = who
         /\ ready' = Append(Tail(ready), Manage)
    ELSE /\ UNCHANGED view_stopped
         /\ ready' = Tail(ready)

\* The platform dispatches a press of "Add sound file": Button.callback runs
\* to `await interaction.response.send_modal(self.modal)`.
PressAdd ==
    /\ LoopFree /\ ViewActive
    /\ NextPress <= MaxPresses
    /\ btn' = [btn EXCEPT ![NextPress] = [kind |-> "add", pc |-> "http"]]
    /\ presses' = [presses EXCEPT !.add = @ + 1]
    /\ UNCHANGED <<metaVars, upc, histVars, otherVars, mpc, sessionVars, viewVars, modalVars, mod, ready,
                   poolVars, timer_cancel, outVars>>

\* The platform dispatches a press of "Cancel": its callback task is created.
PressCancel ==
    /\ LoopFree /\ ViewActive
    /\ NextPress <= MaxPresses
    /\ btn' = [btn EXCEPT ![NextPress] = [kind |-> "cancel", pc |-> "pressed"]]
    /\ presses' = [presses EXCEPT !.cancel = @ + 1]
    /\ ready' = Append(ready, ButtonTask(NextPress))
    /\ UNCHANGED <<metaVars, upc, histVars, otherVars, mpc, sessionVars, viewVars, modalVars, mod,
                   poolVars, timer_cancel, outVars>>

\* The response to send_modal arrives: the callback is ready to resume.
ModalSent(i) ==
    /\ LoopFree
    /\ btn[i].pc = "http"
    /\ btn' = [btn EXCEPT ![i].pc = "sent"]
    /\ ready' = Append(ready, ButtonTask(i))
    /\ UNCHANGED <<metaVars, upc, histVars, otherVars, mpc, sessionVars, viewVars, modalVars, mod, presses,
                   poolVars, timer_cancel, outVars>>

\* What a callback that reached its last two lines writes to view.value.
CallbackValue(i) == IF btn[i].kind = "add" THEN "True" ELSE "False"

\* The next step of Button.callback.  After send_modal the modal is
\* registered and the callback awaits modal.wait(), which returns at once
\* when the modal is already stopped; the last step sets view.value and
\* stops the view.
ButtonCallback(i) ==
    /\ LoopFree
    /\ ready # <<>> /\ Head(ready) = ButtonTask(i)
    /\ IF btn[i].pc = "sent" /\ ~modal_stopped
       THEN /\ btn' = [btn EXCEPT ![i].pc = "wait_modal"]
            /\ modal_open' = TRUE
            /\ ready' = Tail(ready)
            /\ UNCHANGED viewVars
       ELSE /\ btn' = [btn EXCEPT ![i].pc = "done"]
            /\ modal_open' = IF btn[i].pc = "sent" THEN TRUE ELSE modal_open
            /\ view_value' = CallbackValue(i)
            /\ StopView(btn[i].kind)
    /\ UNCHANGED <<metaVars, upc, histVars, otherVars, mpc, sessionVars, modal_stopped, modal_submitted,
                   modal_start, modal_end, mod, presses, poolVars, timer_cancel,
                   outVars>>

NextSubmit == CHOOSE j \in 1..MaxSubmits : mod[j] = "none"

\* The end time field is required when the source exceeds the publish size.
EndRequired == size > max_filesize

\* The user submits the modal: the platform stores the field values and
\* Modal.callback runs to `await interaction.response.send_message(...)`.
ModalSubmit(s, e) ==
    /\ LoopFree
    /\ modal_open
    /\ \E j \in 1..MaxSubmits : mod[j] = "none"
    /\ EndRequired => e # Blank
    /\ modal_open' = FALSE
    /\ modal_submitted' = TRUE
    /\ modal_start' = s
    /\ modal_end' = e
    /\ mod' = [mod EXCEPT ![NextSubmit] = "http"]
    /\ UNCHANGED <<metaVars, upc, histVars, otherVars, mpc, sessionVars, viewVars, modal_stopped, btn,
                   presses, ready, poolVars, timer_cancel, outVars>>

\* The response to Modal.callback's send_message arrives.
ModalAnswered(j) ==
    /\ LoopFree
    /\ mod[j] = "http"
    /\ mod' = [mod EXCEPT ![j] = "answered"]
    /\ ready' = Append(ready, ModalTask(j))
    /\ UNCHANGED <<metaVars, upc, histVars, otherVars, mpc, sessionVars, viewVars, modalVars, btn, presses,
                   poolVars, timer_cancel, outVars>>

RECURSIVE Waiters(_)
\* The callbacks awaiting the modal, from index i on.
Waiters(i) ==
    IF i > MaxPresses THEN <<>>
    ELSE IF btn[i].pc = "wait_modal" THEN <<ButtonTask(i)>> \o Waiters(i + 1)
    ELSE Waiters(i + 1)

\* Modal.callback resumes and calls Modal.stop(): the first stop resolves
\* the future and wakes every callback awaiting it.
ModalCallback(j) ==
    /\ LoopFree
    /\ ready # <<>> /\ Head(ready) = ModalTask(j)
    /\ mod' = [mod EXCEPT ![j] = "done"]
    /\ IF modal_stopped
       THEN /\ ready' = Tail(ready)
            /\ UNCHANGED <<btn, modal_stopped>>
       ELSE /\ modal_stopped' = TRUE
            /\ btn' = [i \in 1..MaxPresses |->
                         IF btn[i].pc = "wait_modal"
                         THEN [btn[i] EXCEPT !.pc = "woken"] ELSE btn[i]]
            /\ ready' = Tail(ready) \o Waiters(1)
    /\ UNCHANGED <<metaVars, upc, histVars, otherVars, mpc, sessionVars, viewVars, modal_open,
                   modal_submitted, modal_start, modal_end, presses, poolVars,
                   timer_cancel, outVars>>

\* The view's timeout (button_timeout * 2) passes with the view still active.
ViewTimeout ==
    /\ LoopFree /\ ViewActive
    /\ view_stopped' = "timeout"
    /\ ready' = Append(ready, Manage)
    /\ UNCHANGED <<metaVars, upc, histVars, otherVars, mpc, sessionVars, view_value, modalVars, btn, mod,
                   presses, poolVars, timer_cancel, outVars>>

(* --------------------- manage: the user's decision -------------------- *)

\* The start and end texts manage reads from the modal, with their defaults.
StartText == OrDefault(modal_start, <<0, 0>>)
EndText == OrDefault(modal_end, FormatTime(original_duration))

\* The report that ends an accepted session before the download, "ok" when
\* the download is submitted.
AcceptReport ==
    IF ~WellFormed(StartText) \/ ~WellFormed(EndText) THEN "invalid_time"
    ELSE LET rr == RangeReport(ToSeconds(StartText), ToSeconds(EndText),
                               original_duration, max_duration)
         IN  IF rr # "ok" THEN rr
             ELSE IF TooBig(size) THEN "too_big"
             ELSE "ok"

\* None is taken for an accept.
DecisionDefaultAccept(v) == IF v = "False" THEN "cancel" ELSE "accept"

\* None is tested as "not chosen".
DecisionTruthy(v) == IF v = "True" THEN "accept" ELSE "cancel"

\* The branch manage takes on view.value: None, truthy, or else.
Decision(v) ==
    IF v = "None" THEN "timeout" ELSE IF v = "True" THEN "accept" ELSE "cancel"

\* manage resumes from `await view.wait()` and runs to its next await: the
\* final report of a session that ends here, or the submission of the
\* download and the first status message.
ManageDecide ==
    /\ LoopFree
    /\ ready # <<>> /\ Head(ready) = Manage
    /\ mpc = "wait_view"
    /\ ready' = Tail(ready)
    /\ decision' = Decision(view_value)
    /\ IF Decision(view_value) = "timeout"
       THEN /\ report' = "no_button"
            /\ mpc' = "done"
            /\ UNCHANGED <<start_time, end_time, dl_job, dl_submits>>
       ELSE IF Decision(view_value) = "accept"
       THEN /\ TRUE
            /\ IF WellFormed(StartText) /\ WellFormed(EndText)
               THEN /\ start_time' = ToSeconds(StartText)
                    /\ end_time' = ToSeconds(EndText)
               ELSE UNCHANGED <<start_time, end_time>>
            /\ IF AcceptReport = "ok"
               THEN /\ dl_job' = "running"
                    /\ dl_submits' = dl_submits + 1
                    /\ mpc' = "send_status"
                    /\ UNCHANGED report
               ELSE /\ report' = AcceptReport
                    /\ mpc' = "done"
                    /\ UNCHANGED <<dl_job, dl_submits>>
       ELSE /\ report' = "cancelled"
            /\ mpc' = "done"
            /\ UNCHANGED <<start_time, end_time, dl_job, dl_submits>>
    /\ UNCHANGED <<metaVars, upc, histVars, otherVars, crashed, viewVars, modalVars, btn, mod, presses,
                   ydl_progress, hooks, norm_job, timer_cancel, outVars>>

(* ------------------------ manage: the download ------------------------ *)

\* Positions where manage awaits a response of the platform or a sleep.
AwaitingPcs == {"send_status", "poll_wait", "conv_wait", "final_edit", "publish"}

\* The response (or the end of the sleep) manage awaits arrives.
ManageWake ==
    /\ LoopFree
    /\ mpc \in AwaitingPcs
    /\ ~InQueue(Manage)
    /\ ready' = Append(ready, Manage)
    /\ UNCHANGED <<metaVars, upc, histVars, otherVars, mpc, sessionVars, viewVars, modalVars, btn, mod,
                   presses, poolVars, timer_cancel, outVars>>

\* download_timeout passes while manage is suspended inside the
\* `async with timeout(...)` block: the timer's callback cancels the task.
DownloadTimeout ==
    /\ LoopFree
    /\ mpc = "poll_wait"
    /\ ~timer_cancel
    /\ timer_cancel' = TRUE
    /\ ready' = IF InQueue(Manage) THEN ready ELSE Append(ready, Manage)
    /\ UNCHANGED <<metaVars, upc, histVars, otherVars, mpc, sessionVars, viewVars, modalVars, btn, mod,
                   presses, poolVars, outVars>>

\* The first status message is sent: manage enters the timeout block and
\* the polling loop.
ManageEnterPoll ==
    /\ LoopFree
    /\ ready # <<>> /\ Head(ready) = Manage
    /\ mpc = "send_status"
    /\ ready' = Tail(ready)
    /\ mpc' = "poll"
    /\ UNCHANGED <<metaVars, upc, histVars, otherVars, sessionVars, viewVars, modalVars, btn, mod, presses,
                   poolVars, timer_cancel, outVars>>

\* while self.bot.ydl_progress["status"] != "finished"
PollHead ==
    /\ mpc = "poll"
    /\ mpc' = IF ydl_progress.status = "finished"
              THEN "post_poll" ELSE "poll_downloading"
    /\ left_on' = IF ydl_progress.status = "finished"
                  THEN ydl_progress.owner ELSE left_on
    /\ UNCHANGED <<metaVars, upc, histVars, removeVars, closeVars, shown, norm_file, pub_file, sharedVars, sessionVars, viewVars, modalVars, btn, mod, presses,
                   ready, poolVars, timer_cancel, outVars>>

\* if self.bot.ydl_progress["status"] == "downloading": edit the status
\* message and sleep (both awaits).
PollDownloading ==
    /\ mpc = "poll_downloading"
    /\ IF ydl_progress.status = "downloading"
       THEN /\ mpc' = "poll_wait"
            /\ edited' = edited \cup {"status"}
            /\ shown' = shown \cup {ydl_progress.owner}
       ELSE /\ mpc' = "poll_else"
            /\ UNCHANGED <<edited, shown>>
    /\ UNCHANGED <<metaVars, upc, histVars, removeVars, closeVars, left_on, norm_file, pub_file, sharedVars, sessionVars, viewVars, modalVars, btn, mod, presses,
                   ready, poolVars, timer_cancel, unknown_seen, published>>

\* elif status in {"downloading", ""}: continue, without an await;
\* else: log "download failed" and break.
PollElse ==
    /\ mpc = "poll_else"
    /\ IF ydl_progress.status \in {"downloading", ""}
       THEN /\ mpc' = "poll"
            /\ UNCHANGED <<unknown_seen, left_on>>
       ELSE /\ mpc' = "post_poll"
            /\ unknown_seen' = (unknown_seen \/ ydl_progress.status # "finished")
            /\ left_on' = ydl_progress.owner
    /\ UNCHANGED <<metaVars, upc, histVars, removeVars, closeVars, shown, norm_file, pub_file, sharedVars, sessionVars, viewVars, modalVars, btn, mod, presses,
                   ready, poolVars, timer_cancel, edited, published>>

\* manage resumes inside the polling loop: with the cancellation of the
\* timeout (TimeoutError leaves manage, nothing catches it), or at the
\* loop's head.
ManagePollResume ==
    /\ LoopFree
    /\ ready # <<>> /\ Head(ready) = Manage
    /\ mpc = "poll_wait"
    /\ ready' = Tail(ready)
    /\ IF timer_cancel
       THEN /\ crashed' = "TimeoutError"
            /\ mpc' = "done"
       ELSE /\ mpc' = "poll"
            /\ UNCHANGED crashed
    /\ UNCHANGED <<metaVars, upc, histVars, otherVars, decision, start_time, end_time, report, viewVars,
                   modalVars, btn, mod, presses, poolVars, timer_cancel, outVars>>

(* --------------------- manage: normalize and publish ------------------ *)

\* After the loop: Path(self.bot.ydl_progress["filename"]) and the
\* submission of normalize_sound.
PostPoll ==
    /\ mpc = "post_poll"
    /\ IF "filename" \in ydl_progress.keys
       THEN /\ norm_job' = "running"
            /\ norm_submits' = norm_submits + 1
            /\ norm_file' = ydl_progress.owner
            /\ mpc' = "conv"
            /\ UNCHANGED crashed
       ELSE /\ crashed' = "KeyError"
            /\ mpc' = "done"
            /\ UNCHANGED <<norm_job, norm_submits, norm_file>>
    /\ UNCHANGED <<metaVars, upc, extract_calls, extract_failed, prompts,
                   publishes, added_reports, removeVars, closeVars, shown, left_on, pub_file, sharedVars, decision, start_time, end_time, report, viewVars,
                   modalVars, btn, mod, presses, ready, ydl_progress, dl_job,
                   dl_submits, hooks, timer_cancel, outVars>>

\* while not task.done(): edit and sleep; then the final status embed,
\* which reads ydl_progress["total_bytes"].
ConvCheck ==
    /\ mpc = "conv"
    /\ IF norm_job = "running"
       THEN /\ mpc' = "conv_wait"
            /\ edited' = edited \cup {"status"}
            /\ UNCHANGED crashed
       ELSE IF "total_bytes" \in ydl_progress.keys
       THEN /\ mpc' = "final_edit"
            /\ edited' = edited \cup {"status"}
            /\ UNCHANGED crashed
       ELSE /\ crashed' = "KeyError"
            /\ mpc' = "done"
            /\ UNCHANGED edited
    /\ UNCHANGED <<metaVars, upc, histVars, otherVars, decision, start_time, end_time, report, viewVars,
                   modalVars, btn, mod, presses, ready, poolVars, timer_cancel,
                   unknown_seen, published>>

\* manage resumes from the sleep of the conversion loop.
ManageConvResume ==
    /\ LoopFree
    /\ ready # <<>> /\ Head(ready) = Manage
    /\ mpc = "conv_wait"
    /\ ready' = Tail(ready)
    /\ mpc' = "conv"
    /\ UNCHANGED <<metaVars, upc, histVars, otherVars, sessionVars, viewVars, modalVars, btn, mod, presses,
                   poolVars, timer_cancel, outVars>>

\* After the final edit: the status is reset, the .ogg file beside the
\* file that was normalized is opened (it exists if a normalization of that
\* file has exported it) and sent to the pack channel.
ManagePublish ==
    /\ LoopFree
    /\ ready # <<>> /\ Head(ready) = Manage
    /\ mpc = "final_edit"
    /\ ready' = Tail(ready)
    /\ ydl_progress' = [ydl_progress EXCEPT !.status = ""]
    /\ IF norm_file \in oggs
       THEN /\ published' = TRUE
            /\ pub_file' = norm_file
            /\ publishes' = publishes + 1
            /\ mpc' = "publish"
            /\ UNCHANGED crashed
       ELSE /\ crashed' = "FileNotFoundError"
            /\ mpc' = "done"
            /\ UNCHANGED <<published, publishes, pub_file>>
    /\ UNCHANGED <<metaVars, upc, extract_calls, extract_failed, prompts,
                   norm_submits, added_reports, removeVars, closeVars, shown, left_on, norm_file, sharedVars, decision, start_time, end_time, report, viewVars,
                   modalVars, btn, mod, presses, dl_job, dl_submits, hooks,
                   norm_job, timer_cancel, unknown_seen, edited>>

\* The file is sent: the success report.
ManageReportAdded ==
    /\ LoopFree
    /\ ready # <<>> /\ Head(ready) = Manage
    /\ mpc = "publish"
    /\ ready' = Tail(ready)
    /\ report' = "added"
    /\ added_reports' = added_reports + 1
    /\ mpc' = "done"
    /\ UNCHANGED <<metaVars, upc, extract_calls, extract_failed, prompts,
                   norm_submits, publishes, otherVars, decision, start_time, end_time, crashed, viewVars,
                   modalVars, btn, mod, presses, poolVars, timer_cancel, outVars>>

(* ----------------------------- the workers ---------------------------- *)

\* The dict the download of session n hands to the progress hook; owner
\* tells the downloads' files apart.  An "error" dict may carry the status
\* alone.
HookDict(kind, n) ==
    CASE kind = "downloading" ->
           [status |-> "downloading", filename |-> "download",
            keys |-> {"filename", "total_bytes"}, owner |-> n]
      [] kind = "finished" ->
           [status |-> "finished", filename |-> "download",
            keys |-> {"filename", "total_bytes"}, owner |-> n]
      [] kind = "error" ->
           [status |-> "error", filename |-> "", keys |-> {}, owner |-> n]
      [] kind = "error_named" ->
           [status |-> "error", filename |-> "download",
            keys |-> {"filename", "total_bytes"}, owner |-> n]


\* A hook that keeps a slot for each session: it drops the dict of a
\* download that is not this session's.
ydl_progress_hook_own(d) ==
    /\ ydl_progress' = IF d.owner = session_no THEN d ELSE ydl_progress
    /\ last_hook' = d.owner

\* Bot.ydl_progress_hook, called on the download's thread.
ydl_progress_hook(d) ==
    /\ ydl_progress' = d
    /\ last_hook' = d.owner

\* The download reports progress.
DownloadProgress ==
    /\ dl_job = "running"
    /\ hooks < MaxHooks
    /\ hooks' = hooks + 1
    /\ ydl_progress_hook(HookDict("downloading", session_no))
    /\ UNCHANGED <<metaVars, upc, histVars, removeVars, closeVars, ownVars, session_no, others, other_hooks, oggs,
                   timed_out, peer_pc, mpc, sessionVars, viewVars, modalVars, btn, mod,
                   presses, ready, dl_job, dl_submits, norm_job, timer_cancel,
                   outVars>>

\* The download ends: with a last call of the hook, or by raising before
\* any call ("raise").
DownloadEnd(kind) ==
    /\ dl_job = "running"
    /\ dl_job' = "done"
    /\ IF kind = "raise"
       THEN UNCHANGED <<ydl_progress, last_hook>>
       ELSE ydl_progress_hook(HookDict(kind, session_no))
    /\ UNCHANGED <<metaVars, upc, histVars, removeVars, closeVars, ownVars, session_no, others, other_hooks, oggs,
                   timed_out, peer_pc, mpc, sessionVars, viewVars, modalVars, btn, mod,
                   presses, ready, dl_submits, hooks, norm_job, timer_cancel,
                   outVars>>

\* normalize_sound returns (the .ogg file is written) or raises.
NormalizeEnd(ok) ==
    /\ norm_job = "running"
    /\ norm_job' = IF ok THEN "ok" ELSE "error"
    /\ oggs' = IF ok THEN oggs \cup {norm_file} ELSE oggs
    /\ UNCHANGED <<metaVars, upc, histVars, removeVars, closeVars, ownVars, session_no, others, other_hooks,
                   timed_out, last_hook, peer_pc, mpc, sessionVars, viewVars, modalVars, btn, mod,
                   presses, ready, ydl_progress, dl_job, dl_submits, hooks,
                   timer_cancel, outVars>>

(* ------------------------ more than one session ---------------------- *)

\* What a session of manage starts with: its locals, its view and modal,
\* the tasks of its prompt, and the jobs it will submit.
SessionReset ==
    /\ link' = NoLink /\ original_duration' = 0 /\ size' = 0
    /\ max_duration' = 0
    /\ upc' = "idle"
    /\ extract_calls' = 0 /\ extract_failed' = FALSE /\ prompts' = 0
    /\ norm_submits' = 0 /\ publishes' = 0 /\ added_reports' = 0
    /\ mpc' = "start" /\ decision' = "none"
    /\ start_time' = -1 /\ end_time' = -1
    /\ report' = "none" /\ crashed' = "none"
    /\ view_value' = "None" /\ view_stopped' = "pending"
    /\ modal_open' = FALSE /\ modal_stopped' = FALSE
    /\ modal_submitted' = FALSE
    /\ modal_start' = Blank /\ modal_end' = Blank
    /\ btn' = [i \in 1..MaxPresses |-> [kind |-> "none", pc |-> "none"]]
    /\ mod' = [j \in 1..MaxSubmits |-> "none"]
    /\ presses' = [add |-> 0, cancel |-> 0]
    /\ ready' = <<>>
    /\ dl_job' = "idle" /\ dl_submits' = 0 /\ hooks' = 0 /\ norm_job' = "idle"
    /\ timer_cancel' = FALSE /\ unknown_seen' = FALSE
    /\ edited' = {} /\ published' = FALSE
    /\ shown' = {} /\ left_on' = 0 /\ norm_file' = 0 /\ pub_file' = 0

\* An add session has ended (by a report or by an exception) and the next
\* one is invoked.  The bot's progress snapshot, the files on disk and a
\* download the pool still runs stay as the ended session left them.
NextSession ==
    /\ mpc = "done" /\ HasLink(link)
    /\ session_no < MaxSessions
    /\ session_no' = session_no + 1
    /\ others' = IF dl_job = "running" THEN others \cup {session_no} ELSE others
    /\ timed_out' = IF crashed = "TimeoutError"
                    THEN timed_out \cup {session_no} ELSE timed_out
    /\ SessionReset
    /\ UNCHANGED <<ydl_progress, oggs, last_hook, other_hooks, peer_pc,
                   removeVars, closeVars>>

\* What the download of another session leaves alone.
otherJobFrame == <<metaVars, upc, histVars, removeVars, closeVars, ownVars, mpc,
                   sessionVars, viewVars, modalVars, btn, mod, presses, ready,
                   dl_job, dl_submits, hooks, norm_job, timer_cancel, outVars,
                   session_no, oggs, timed_out>>

\* The download of session o, which is not the session at hand, reports
\* progress.
OtherProgress(o) ==
    /\ o \in others
    /\ other_hooks < MaxHooks
    /\ other_hooks' = other_hooks + 1
    /\ ydl_progress_hook(HookDict("downloading", o))
    /\ UNCHANGED <<otherJobFrame, others, peer_pc>>

\* The download of session o ends.
OtherEnd(o, kind) ==
    /\ o \in others
    /\ others' = others \ {o}
    /\ IF kind = "raise"
       THEN UNCHANGED <<ydl_progress, last_hook>>
       ELSE ydl_progress_hook(HookDict(kind, o))
    /\ UNCHANGED <<otherJobFrame, other_hooks, peer_pc>>

\* What a step of the second session leaves alone.
peerFrame == <<otherJobFrame, other_hooks, last_hook>>

\* A second add session, invoked while this one runs, submits its download
\* and enters its polling loop.
PeerSubmit ==
    /\ peer_pc = "none"
    /\ peer_pc' = "polling"
    /\ others' = others \cup {session_no + 1}
    /\ UNCHANGED <<peerFrame, ydl_progress>>

\* The second session leaves its polling loop, on "finished" or on the
\* break, and reads the file name (KeyError without one).
PeerLeave ==
    /\ peer_pc = "polling"
    /\ ydl_progress.status \notin {"downloading", ""}
    /\ peer_pc' = IF "filename" \in ydl_progress.keys
                  THEN "normalizing" ELSE "done"
    /\ UNCHANGED <<peerFrame, ydl_progress, others>>

\* The second session, its normalization done, resets the status.
PeerReset ==
    /\ peer_pc = "normalizing"
    /\ ydl_progress' = [ydl_progress EXCEPT !.status = ""]
    /\ peer_pc' = "done"
    /\ UNCHANGED <<peerFrame, others>>

PeerStep ==
    \/ PeerSubmit
    \/ PeerLeave
    \/ PeerReset

OtherStep ==
    \/ \E o \in 1..MaxSessions : OtherProgress(o)
    \/ \E o \in 1..MaxSessions, k \in {"finished", "error", "error_named", "raise"} :
          OtherEnd(o, k)

(* ---------------------------- the remove flow -------------------------- *)

\* channel.history(limit=100)
HistoryLimit == 100

\* An attachment; a file name is the sequence of its character codes.
Ogg(f) == [filename |-> f, content_type |-> "audio/ogg"]
Png(f) == [filename |-> f, content_type |-> "image/png"]

\* The attachments of one message.
AttachmentLists ==
    {<<>>, <<Ogg(<<1>>)>>, <<Ogg(<<2>>)>>, <<Ogg(<<1, 1>>)>>, <<Png(<<1>>)>>,
     <<Ogg(<<2>>), Ogg(<<1>>)>>}

\* The newest messages of the channel that carry no attachment: none, or
\* as many as leave one place, or none, within the history limit.
Pads == {0, HistoryLimit - 1, HistoryLimit}

\* The messages that follow them.
Tails == UNION {[1..n -> AttachmentLists] : n \in 0..MaxMessages}

\* A channel, newest message first; a message is known by its id.
Channel(pad, tail) ==
    [i \in 1..(pad + Len(tail)) |->
        [id |-> i, attachments |-> IF i <= pad THEN <<>> ELSE tail[i - pad]]]

\* channel.history(limit=100).flatten()
History(ch) ==
    SubSeq(ch, 1, IF Len(ch) < HistoryLimit THEN Len(ch) ELSE HistoryLimit)

RECURSIVE AudioOf(_, _)
\* for attachment in msg.attachments: if content_type == "audio/ogg": yield
AudioOf(msg, k) ==
    IF k > Len(msg.attachments) THEN <<>>
    ELSE (IF msg.attachments[k].content_type = "audio/ogg"
          THEN <<[msg |-> msg.id, attachment |-> msg.attachments[k]]>>
          ELSE <<>>) \o AudioOf(msg, k + 1)

RECURSIVE SoundFilesFrom(_, _, _)
\* for msg in messages: the pairs of the messages i..j, in their order (the
\* range is halved to keep the evaluation shallow).
SoundFilesFrom(msgs, i, j) ==
    IF i > j THEN <<>>
    ELSE IF i = j THEN AudioOf(msgs[i], 1)
    ELSE LET mid == (i + j) \div 2
         IN  SoundFilesFrom(msgs, i, mid) \o SoundFilesFrom(msgs, mid + 1, j)

\* The pairs of every message of the channel, whatever the limit.
get_sound_files_unlimited(ch) == SoundFilesFrom(ch, 1, Len(ch))

\* Pack.get_sound_files
get_sound_files(ch) == SoundFilesFrom(History(ch), 1, Len(History(ch)))

\* The set of all the pairs.
UniqueAll(sf) == {sf[i] : i \in 1..Len(sf)}

\* The set comprehension over `seen`: the first pair of each file name.
Unique(sf) ==
    {sf[i] : i \in {j \in 1..Len(sf) :
                      \A k \in 1..(j - 1) :
                         sf[k].attachment.filename # sf[j].attachment.filename}}

\* The orders in which a set can be iterated.
Orders(S) ==
    {s \in [1..Cardinality(S) -> S] : \A x \in S : \E i \in 1..Cardinality(S) : s[i] = x}

\* f < g for two strings: the code at the first difference decides, a proper
\* prefix comes first.
Before(f, g) ==
    \E k \in 1..(Len(f) + 1) :
        /\ k <= Len(g)
        /\ \A j \in 1..(k - 1) : f[j] = g[j]
        /\ (k > Len(f) \/ f[k] < g[k])

\* The order of iteration kept as it is.
Unsorted(s) == s

RECURSIVE Sorted(_)
\* sorted(s, key=lambda x: x[1].filename): stable, pairs of equal file name
\* keep their order.
Sorted(s) ==
    IF s = <<>> THEN <<>>
    ELSE LET init == Sorted(SubSeq(s, 1, Len(s) - 1))
             x == s[Len(s)]
             p == Cardinality({i \in 1..Len(init) :
                    ~Before(x.attachment.filename, init[i].attachment.filename)})
         IN  SubSeq(init, 1, p) \o <<x>> \o SubSeq(init, p + 1, Len(init))

\* The options of SoundDropdown for an iteration order of the deduplicated
\* set: the value is the file name; msg is the message the option's
\* description was built from.
SelectOptions(order) ==
    LET s == Sorted(order)
    IN  [i \in 1..Len(s) |-> [value |-> s[i].attachment.filename, msg |-> s[i].msg]]

\* The indexes of the pairs whose file name is v.
Matches(sf, v) == {i \in 1..Len(sf) : sf[i].attachment.filename = v}

\* The last pair whose file name is v.
LastMatch(sf, v) ==
    IF Matches(sf, v) = {} THEN 0
    ELSE CHOOSE i \in Matches(sf, v) : \A j \in Matches(sf, v) : j <= i

\* for msg, attachement in sound_files: if attachement.filename == view.value:
\* the first such pair (0 when the loop ends without one).
FirstMatch(sf, v) ==
    IF Matches(sf, v) = {} THEN 0
    ELSE CHOOSE i \in Matches(sf, v) : \A j \in Matches(sf, v) : i <= j

\* What the remove flow leaves alone.
addRest == <<upc, histVars, decision, start_time, end_time, crashed,
             view_value, modalVars, btn, mod, presses, poolVars, timer_cancel,
             outVars, closeVars, multiVars>>
addVars == <<metaVars, addRest>>

SelectTask(k) == <<"select", k>>

\* manage with no link, from its call to `await view.wait()`: the scan of
\* the channel `ch`, the "no sound files" report or the dropdown.
RemoveStart(l, ch) ==
    /\ upc = "idle" /\ ~HasLink(l)
    /\ link' = l
    /\ invocations < MaxInvocations
    /\ invocations' = invocations + 1
    /\ channel' = ch
    /\ sound_files' = get_sound_files(ch)
    /\ deleted' = <<>>
    /\ values' = NoValue /\ dropdown_value' = NoValue /\ selects' = 0
    /\ view_stopped' = "pending"
    /\ IF get_sound_files(ch) = <<>>
       THEN /\ report' = "no_sound_files"
            /\ mpc' = "done"
            /\ options' = <<>>
            /\ UNCHANGED options_log
       ELSE /\ \E order \in Orders(Unique(get_sound_files(ch))) :
                 /\ options' = SelectOptions(order)
                 /\ options_log' = Append(options_log,
                        [options |-> SelectOptions(order), removals |-> removed_reports])
            /\ report' = "none"
            /\ mpc' = "wait_dropdown"
    /\ UNCHANGED <<original_duration, size, max_duration, addRest, ready,
                   removed_reports>>

\* The first invocation finds the channel in any of its states.
RemoveFirst ==
    /\ mpc = "start" /\ invocations = 0
    /\ \E l \in AnyLinks, pad \in Pads, tail \in Tails :
           RemoveStart(l, Channel(pad, tail))

\* A later invocation, after the earlier one has ended, finds the channel
\* as that one left it.
RemoveAgain ==
    /\ mpc = "done" /\ invocations > 0
    /\ RemoveStart(link, channel)

\* The removal view is in the view store.
DropdownActive == mpc = "wait_dropdown" /\ view_stopped = "pending"

\* The platform dispatches a selection of the option v: the dropdown's
\* values are refreshed and the callback task is created.
Select(v) ==
    /\ DropdownActive
    /\ selects < MaxSelects
    /\ \E i \in 1..Len(options) : options[i].value = v
    /\ values' = v
    /\ selects' = selects + 1
    /\ ready' = Append(ready, SelectTask(selects + 1))
    /\ UNCHANGED <<addVars, mpc, report, view_stopped, channel, sound_files,
                   options, dropdown_value, deleted, removed_reports,
                   invocations, options_log>>

\* SoundDropdown.callback (no modal): view.value = values[0]; view.stop().
DropdownCallback ==
    /\ ready # <<>> /\ Head(ready)[1] = "select"
    /\ dropdown_value' = values
    /\ StopView("select")
    /\ UNCHANGED <<addVars, mpc, report, channel, sound_files, options, values,
                   selects, deleted, removed_reports, invocations, options_log>>

\* The removal view's timeout passes (the view is built with the default).
DropdownTimeout ==
    /\ DropdownActive
    /\ view_stopped' = "timeout"
    /\ ready' = Append(ready, Manage)
    /\ UNCHANGED <<addVars, mpc, report, removeVars>>

\* manage resumes from `await view.wait()`: the "not in time" report, or the
\* search of the selected file and `await msg.delete()`.
RemoveDecide ==
    /\ ready # <<>> /\ Head(ready) = Manage
    /\ mpc = "wait_dropdown"
    /\ ready' = Tail(ready)
    /\ IF dropdown_value = NoValue
       THEN /\ report' = "no_choice"
            /\ mpc' = "done"
            /\ UNCHANGED <<channel, deleted>>
       ELSE LET i == FirstMatch(sound_files, dropdown_value)
            IN  IF i = 0
                THEN /\ mpc' = "done"
                     /\ UNCHANGED <<report, channel, deleted>>
                ELSE /\ mpc' = "deleting"
                     /\ deleted' = Append(deleted, sound_files[i].msg)
                     /\ channel' = SelectSeq(channel,
                                      LAMBDA m : m.id # sound_files[i].msg)
                     /\ UNCHANGED report
    /\ UNCHANGED <<addVars, view_stopped, sound_files, options, values,
                   dropdown_value, selects, removed_reports, invocations,
                   options_log>>

\* The message is deleted: the success report, and the loop breaks.
RemoveReport ==
    /\ mpc = "deleting"
    /\ report' = "removed"
    /\ removed_reports' = removed_reports + 1
    /\ mpc' = "done"
    /\ UNCHANGED <<addVars, view_stopped, ready, channel, sound_files, options,
                   values, dropdown_value, selects, deleted, invocations,
                   options_log>>

RemoveNext ==
    \/ RemoveFirst
    \/ RemoveAgain
    \/ \E v \in {<<1>>, <<1, 1>>, <<2>>} : Select(v)
    \/ DropdownCallback
    \/ DropdownTimeout
    \/ RemoveDecide
    \/ RemoveReport

RemoveSpec == Init /\ [][RemoveNext]_vars

(* ------------------------------- shutdown ----------------------------- *)

\* A test that takes the session for present whatever it is.
SessionAlways(s) == TRUE

\* if self.http_session: a session object is truthy, open or closed.
SessionPresent(s) == s # "absent"

\* What shutdown leaves alone.
sessionStateVars == <<metaVars, upc, histVars, removeVars, mpc, sessionVars,
                      viewVars, modalVars, btn, mod, presses, ready, poolVars,
                      timer_cancel, outVars, multiVars>>

\* Bot.close is called (the invocations are numbered in the order of their
\* calls) and runs to `await super().close()`.
CloseCall(k) ==
    /\ cpc[k] = "idle"
    /\ \A j \in 1..(k - 1) : cpc[j] # "idle"
    /\ cpc' = [cpc EXCEPT ![k] = "super"]
    /\ UNCHANGED <<sessionStateVars, pool, http_session, session_closes, close_log>>

\* super().close() returns: self.pool.shutdown(), then, if there is a
\* session, close runs to `await self.http_session.close()`.  Closing marks
\* an open session closed at the call and changes nothing on a closed one.
CloseRelease(k) ==
    /\ cpc[k] = "super"
    /\ pool' = "shutdown"
    /\ IF ~SessionPresent(http_session)
       THEN /\ cpc' = [cpc EXCEPT ![k] = "done"]
            /\ close_log' = Append(close_log, "pool")
            /\ UNCHANGED <<http_session, session_closes>>
       ELSE IF http_session = "absent"
       THEN /\ cpc' = [cpc EXCEPT ![k] = "AttributeError"]
            /\ close_log' = Append(close_log, "pool")
            /\ UNCHANGED <<http_session, session_closes>>
       ELSE /\ cpc' = [cpc EXCEPT ![k] = "session"]
            /\ close_log' = close_log \o <<"pool", "session">>
            /\ http_session' = "closed"
            /\ session_closes' = session_closes + (IF http_session = "open" THEN 1 ELSE 0)
    /\ UNCHANGED sessionStateVars

\* http_session.close() returns: close is done.
CloseDone(k) ==
    /\ cpc[k] = "session"
    /\ cpc' = [cpc EXCEPT ![k] = "done"]
    /\ UNCHANGED <<sessionStateVars, pool, http_session, session_closes, close_log>>

\* Shutdown finds the shell with its session, or with none.
CloseInit == \E session \in {"open", "absent"} : InitState(session)

CloseNext ==
    \E k \in 1..MaxCloses :
        \/ CloseCall(k)
        \/ CloseRelease(k)
        \/ CloseDone(k)

CloseSpec == CloseInit /\ [][CloseNext]_vars

(* --------------------------- specifications --------------------------- *)

UserStep ==
    \/ UploadPressed
    \/ \E l \in Links : UploadSubmit(l)
    \/ PressAdd
    \/ PressCancel
    \/ \E s \in StartTexts, e \in EndTexts : ModalSubmit(s, e)

LoopStep ==
    \/ UploadModalSent
    \/ UploadModalCallback
    \/ \E i \in 1..MaxPresses : ModalSent(i)
    \/ \E i \in 1..MaxPresses : ButtonCallback(i)
    \/ \E j \in 1..MaxSubmits : ModalAnswered(j)
    \/ \E j \in 1..MaxSubmits : ModalCallback(j)
    \/ ManageDecide
    \/ ManageWake
    \/ ManageEnterPoll
    \/ ManagePollResume
    \/ ManageConvResume
    \/ ManagePublish
    \/ ManageReportAdded

RunningStep ==
    \/ PollHead
    \/ PollDownloading
    \/ PollElse
    \/ PostPoll
    \/ ConvCheck

WorkerStep ==
    \/ DownloadProgress
    \/ \E k \in {"finished", "error", "error_named", "raise"} : DownloadEnd(k)
    \/ \E ok \in BOOLEAN : NormalizeEnd(ok)

Next ==
    \/ \E l \in AnyLinks, ok \in BOOLEAN, src \in Sources :
          ManageStart(l, ok, src[1], src[2])
    \/ UserStep
    \/ ViewTimeout
    \/ DownloadTimeout
    \/ LoopStep
    \/ RunningStep
    \/ WorkerStep

Spec == Init /\ [][Next]_vars

\* The loop runs what is ready, a running task goes on, the workers end,
\* and a timer fires at an instant where the loop is free.
FairSpec ==
    /\ Spec
    /\ WF_vars(LoopStep)
    /\ WF_vars(RunningStep)
    /\ WF_vars(WorkerStep)
    /\ WF_vars(ViewTimeout)
    /\ SF_vars(DownloadTimeout)

\* The add session over sources up to an hour long.
LongNext ==
    \/ \E l \in Links, ok \in BOOLEAN, src \in LongSources :
          ManageStart(l, ok, src[1], src[2])
    \/ UserStep
    \/ ViewTimeout
    \/ DownloadTimeout
    \/ LoopStep
    \/ RunningStep
    \/ WorkerStep

LongSpec == Init /\ [][LongNext]_vars

\* Add sessions one after the other.
SeqNext ==
    \/ Next
    \/ NextSession
    \/ OtherStep

SeqSpec == Init /\ [][SeqNext]_vars

\* Two add sessions at once: this one, accepted with the default times, and
\* a second one from the submission of its download on.
RaceNext ==
    \/ ManageStart(SupportedLink, TRUE, 100, 5242880)
    \/ PressAdd
    \/ \E i \in 1..MaxPresses : ModalSent(i)
    \/ \E i \in 1..MaxPresses : ButtonCallback(i)
    \/ ModalSubmit(Blank, Blank)
    \/ \E j \in 1..MaxSubmits : ModalAnswered(j)
    \/ \E j \in 1..MaxSubmits : ModalCallback(j)
    \/ ManageDecide
    \/ ManageWake
    \/ ManageEnterPoll
    \/ ManagePollResume
    \/ ManageConvResume
    \/ ManagePublish
    \/ ManageReportAdded
    \/ RunningStep
    \/ DownloadProgress
    \/ \E k \in {"finished", "error"} : DownloadEnd(k)
    \/ NormalizeEnd(TRUE)
    \/ OtherProgress(session_no + 1)
    \/ \E k \in {"finished", "error"} : OtherEnd(session_no + 1, k)
    \/ PeerStep

RaceSpec == Init /\ [][RaceNext]_vars

\* The ceiling alone, over every duration up to MaxSeconds.
CeilNext ==
    \E d \in 0..MaxSeconds, sz \in WideSizes :
        ManageStart(SupportedLink, TRUE, d, sz)

CeilSpec == Init /\ [][CeilNext]_vars

(* ------------------------------- claims ------------------------------- *)

RangeReports == {"start_invalid", "end_invalid", "start_gt_end"}

FailedReports == RangeReports \cup {"invalid_time", "too_big"}

\* The user accepted and both times parsed.
AcceptedParsed == decision = "accept" /\ start_time >= 0 /\ end_time >= 0

\* manage is past the polling loop of the download.
PastPoll ==
    mpc \in {"post_poll", "conv", "conv_wait", "final_edit", "publish", "done"}

\* C1: an accepted confirmation with well-formed times that violates one of
\* start <= duration, end <= ceiling, start <= end ends Failed with a report
\* and submits no download.
C1_RangeViolationRejected ==
    (AcceptedParsed /\ (\/ start_time > original_duration
                        \/ end_time > max_duration
                        \/ start_time > end_time))
        => /\ dl_submits = 0
           /\ mpc = "done" => report \in FailedReports

\* C2: once a download is submitted, the polling loop is eventually left.
C2_PollingLoopExits == (dl_submits > 0) ~> PastPoll

\* C3: leaving the polling loop on an unrecognised status ends the session
\* Failed: no normalization job, nothing published.
C3_UnknownStatusFails ==
    unknown_seen
        => /\ norm_job = "idle"
           /\ ~published
           /\ mpc = "done" => (report \in FailedReports /\ crashed = "none")

\* C4: when download_timeout cancels the polling, the session ends with a
\* report to the user, no normalization job and nothing published.
C4_DownloadTimeoutReported ==
    timer_cancel
        => /\ norm_job = "idle"
           /\ ~published
           /\ mpc = "done" => (report # "none" /\ crashed = "none")

\* C5 as stated: start > end is always reported as start > end.
C5_AlwaysNamedStartAfterEnd ==
    (AcceptedParsed /\ start_time > end_time)
        => /\ dl_submits = 0
           /\ mpc = "done" /\ report = "start_gt_end"

\* C5 (amended): start > end ends the session Failed with no download; the
\* report names the first failed check in the order start > duration,
\* end > ceiling, start > end, so it names start > end exactly when the
\* start is within the duration and the end within the ceiling.
C5_StartAfterEndRejected ==
    (AcceptedParsed /\ start_time > end_time)
        => /\ dl_submits = 0
           /\ mpc = "done" /\ report \in RangeReports /\ crashed = "none"
           /\ report = "start_invalid" <=> start_time > original_duration
           /\ report = "start_gt_end"
                <=> (start_time <= original_duration /\ end_time <= max_duration)

C5_Witness ==
    /\ AcceptedParsed /\ start_time > end_time
    /\ start_time <= original_duration /\ end_time <= max_duration
    /\ mpc = "done" /\ report = "start_gt_end"

\* The view timed out and the user neither pressed Cancel nor submitted the
\* modal.
Unanswered ==
    view_stopped = "timeout" /\ presses.cancel = 0 /\ ~modal_submitted

\* C6: a prompt that times out unanswered ends the session TimedOut with
\* its report; no download is submitted and the prompt is not edited, also
\* when the modal was opened and not submitted.
C6_PromptTimeoutEndsSession ==
    Unanswered
        => /\ dl_submits = 0
           /\ "prompt" \notin edited
           /\ mpc \in {"wait_view", "done"}
           /\ mpc = "done"
                => (decision = "timeout" /\ report = "no_button" /\ crashed = "none")

C6_Witness ==
    /\ Unanswered /\ presses.add > 0 /\ modal_open
    /\ mpc = "done" /\ report = "no_button"

\* C7: when Cancel is the first response to resolve the view, the session
\* ends Cancelled and submits no download.
C7_CancelFirstWins ==
    view_stopped = "cancel"
        => /\ dl_submits = 0
           /\ mpc = "done" => report = "cancelled"

\* C8 as stated: an oversize source ends with the size report for every
\* response of the user (accept or cancel).
C8_OversizeAlwaysSizeReport ==
    (size > max_download_size /\ decision \in {"accept", "cancel"})
        => /\ dl_submits = 0
           /\ mpc = "done" => report = "too_big"

\* C8 (amended): an oversize source never submits a download, whatever the
\* user answers; the session ends with the size report when the user
\* accepted with well-formed times that no range check rejected.
C8_OversizeNeverDownloads ==
    (mpc # "start" /\ size > max_download_size)
        => /\ dl_submits = 0
           /\ (mpc = "done" /\ AcceptedParsed /\ report \notin RangeReports)
                => (report = "too_big" /\ crashed = "none")

C8_Witness ==
    /\ size > max_download_size
    /\ mpc = "done" /\ AcceptedParsed /\ report = "too_big"

\* C9: the ceiling never exceeds the original duration and does not decrease
\* when the max publish size grows.
C9_CeilingBoundedMonotone ==
    mpc = "wait_view"
        => /\ max_duration <= original_duration
           /\ \A m1 \in FilesizeLimits, m2 \in FilesizeLimits :
                m1 <= m2 => MaxDuration(original_duration, size, m1)
                              <= MaxDuration(original_duration, size, m2)

C9_Witness ==
    /\ mpc = "wait_view"
    /\ max_duration < original_duration
    /\ MaxDuration(original_duration, size, 2621440) < max_duration

\* C10: the ceiling c is min(d, floor(max_filesize * d / s)): c <= d,
\* c * s <= max_filesize * d, and c is the largest such number up to d;
\* 300 s of 10 MiB give 150 s.
C10_CeilingIsScaledMinimum ==
    mpc = "wait_view"
        => /\ max_duration >= 0
           /\ max_duration <= original_duration
           /\ max_duration * size <= max_filesize * original_duration
           /\ max_duration < original_duration
                => max_filesize * original_duration < (max_duration + 1) * size
           /\ (original_duration = 300 /\ size = 10485760) => max_duration = 150

C10_Witness ==
    /\ mpc = "wait_view"
    /\ original_duration = 300 /\ size = 10485760 /\ max_duration = 150

\* C11: every wait on a prompt is ended by the user's response or by a
\* timeout: the wait of upload on its URL modal, the wait of manage on the
\* confirmation view, and the wait of a button callback on the clip modal
\* all end, also when the user never responds.
C11_PromptWaitsEnd ==
    /\ (upc = "wait_modal") ~> (upc # "wait_modal")
    /\ (mpc = "wait_view") ~> (mpc # "wait_view")
    /\ \A i \in 1..MaxPresses :
          (btn[i].pc = "wait_modal") ~> (btn[i].pc # "wait_modal")

\* C12: a failed extraction is reported to the user and the session ends
\* with no confirmation prompt and no job.
C12_ExtractionFailureReported ==
    extract_failed
        => /\ prompts = 0 /\ dl_submits = 0 /\ norm_submits = 0
           /\ mpc = "done" /\ report # "none"

\* C13: an unsupported link ends the session at once with the failure
\* report: no extraction, no prompt, no download, no publish.
C13_UnsupportedLinkRejected ==
    (mpc # "start" /\ link = UnsupportedLink)
        => /\ mpc = "done" /\ report = "not_supported" /\ crashed = "none"
           /\ extract_calls = 0 /\ prompts = 0
           /\ dl_submits = 0 /\ norm_submits = 0 /\ publishes = 0

C13_Witness ==
    /\ upc = "manage" /\ link = UnsupportedLink
    /\ mpc = "done" /\ report = "not_supported"

\* C18: each step of an add session happens at most once and after its
\* predecessor: the download after the prompt resolved and read as accept,
\* the normalization after the polling loop, the publish after the
\* normalization is done, the success report after the publish.
C18_StepsSequentialOnce ==
    /\ dl_submits <= 1 /\ norm_submits <= 1
    /\ publishes <= 1 /\ added_reports <= 1
    /\ dl_submits > 0
         => (view_stopped # "pending" /\ view_value = "True" /\ decision = "accept")
    /\ norm_submits > 0 => (dl_submits > 0 /\ PastPoll)
    /\ publishes > 0 => (norm_submits > 0 /\ norm_job \in {"ok", "error"})
    /\ added_reports > 0 => (publishes > 0 /\ mpc = "done")

C18_Witness ==
    /\ dl_submits = 1 /\ norm_submits = 1 /\ publishes = 1
    /\ added_reports = 1 /\ report = "added"

\* C19: a session has at most one prompt awaiting the user: while the clip
\* modal awaits its submission the confirmation view's buttons do not.
C19_OnePromptOutstanding == ~(modal_open /\ ViewActive)

\* The file names of the audio attachments within the history limit.
ScannedNames ==
    {History(channel)[i].attachments[k].filename :
        <<i, k>> \in {ik \in (1..Len(History(channel))) \X (1..2) :
                        /\ ik[2] <= Len(History(channel)[ik[1]].attachments)
                        /\ History(channel)[ik[1]].attachments[ik[2]].content_type
                             = "audio/ogg"}}

\* The id of the first message, in scan order, with an audio attachment
\* named f.
FirstCarrier(f) ==
    LET hist == History(channel)
        at == {i \in 1..Len(hist) :
                 \E k \in 1..Len(hist[i].attachments) :
                    /\ hist[i].attachments[k].content_type = "audio/ogg"
                    /\ hist[i].attachments[k].filename = f}
    IN  hist[CHOOSE i \in at : \A j \in at : i <= j].id

\* C14: on a selection exactly one message is deleted, the first one in scan
\* order whose audio attachment has the selected file name, which is the
\* message the selected option was built from, and success is reported;
\* when the view times out with no selection nothing is deleted and the
\* user is told so.
C14_RemovesFirstMatch ==
    /\ Len(deleted) <= 1
    /\ deleted # <<>> => dropdown_value # NoValue
    /\ (mpc = "done" /\ dropdown_value # NoValue)
         => /\ report = "removed"
            /\ Len(deleted) = 1
            /\ \E i \in 1..Len(sound_files) :
                 /\ sound_files[i].attachment.filename = dropdown_value
                 /\ sound_files[i].msg = deleted[1]
                 /\ \A j \in 1..(i - 1) :
                      sound_files[j].attachment.filename # dropdown_value
            /\ \E o \in 1..Len(options) :
                 options[o].value = dropdown_value /\ options[o].msg = deleted[1]
            /\ \A m \in 1..Len(channel) : channel[m].id # deleted[1]
    /\ (mpc = "done" /\ view_stopped = "timeout" /\ selects = 0)
         => (deleted = <<>> /\ report = "no_choice")

C14_Witness ==
    /\ mpc = "done" /\ report = "removed" /\ Len(deleted) = 1
    /\ Cardinality(Matches(sound_files, dropdown_value)) > 1

\* C15: the options hold every file name of the scanned audio attachments
\* exactly once, in ascending order, each built from the first message in
\* scan order that carries the name.
C15_OptionsDistinctSorted ==
    mpc = "wait_dropdown"
        => /\ {options[j].value : j \in 1..Len(options)} = ScannedNames
           /\ Len(options) = Cardinality(ScannedNames)
           /\ \A j \in 1..(Len(options) - 1) :
                Before(options[j].value, options[j + 1].value)
           /\ \A j \in 1..Len(options) :
                options[j].msg = FirstCarrier(options[j].value)

C15_Witness ==
    /\ mpc = "wait_dropdown"
    /\ Len(options) = 2 /\ Len(sound_files) = 3
    /\ options[1].msg > options[2].msg

\* C16: when no message within the history limit has an audio attachment
\* the remove flow ends at once with the "no sound files" report: no
\* dropdown, nothing deleted.
C16_NoSoundFilesEnds ==
    (invocations > 0 /\ deleted = <<>> /\ ScannedNames = {})
        => /\ mpc = "done" /\ report = "no_sound_files"
           /\ options = <<>> /\ selects = 0 /\ view_stopped = "pending"

C16_Witness ==
    /\ mpc = "done" /\ report = "no_sound_files"
    /\ Len(channel) > HistoryLimit
    /\ get_sound_files_unlimited(channel) # <<>>

\* C17: two invocations of the remove flow with no removal between them
\* build the same options, in the same order and from the same messages.
C17_SameOptionsTwice ==
    \A i \in 1..Len(options_log), j \in 1..Len(options_log) :
        options_log[i].removals = options_log[j].removals
            => options_log[i].options = options_log[j].options

C17_Witness ==
    /\ Len(options_log) = 2
    /\ options_log[1].removals = options_log[2].removals
    /\ Len(sound_files) > Len(options)
    /\ Len(options) > 1

\* C20: shutdown releases the pool before it closes the network session,
\* the session is closed at most once (by each invocation, and from open to
\* closed overall), and no invocation fails when the session is absent.
C20_ShutdownOrder ==
    /\ http_session = "closed" => pool = "shutdown"
    /\ \A i \in 1..Len(close_log) :
         close_log[i] = "session" => (i > 1 /\ close_log[i - 1] = "pool")
    /\ Cardinality({i \in 1..Len(close_log) : close_log[i] = "session"})
         <= Cardinality({k \in 1..MaxCloses : cpc[k] \in {"session", "done"}})
    /\ session_closes <= 1
    /\ \A k \in 1..MaxCloses : cpc[k] \in {"idle", "super", "session", "done"}
    /\ http_session = "absent" => session_closes = 0

C20_Witness ==
    /\ http_session = "absent"
    /\ pool = "shutdown"
    /\ \E k \in 1..MaxCloses : cpc[k] = "done"


(* ------------------------ the link check alone ------------------------ *)

\* manage is called with every url and stops at once or goes on to the
\* extraction.
UrlNext == \E url \in Urls : ManageStart(url, TRUE, 100, 5242880)

UrlSpec == Init /\ [][UrlNext]_vars

\* The path of a url: its text before the first "?".
PathOf(text) ==
    LET marks == {i \in 1..Len(text) : text[i] = "?"}
    IN  IF marks = {} THEN text
        ELSE SubSeq(text, 1, (CHOOSE i \in marks : \A j \in marks : i <= j) - 1)

\* The extension of a url: its path from the last "." on, <<>> without one.
ExtensionOf(text) ==
    LET path == PathOf(text)
        dots == {i \in 1..Len(path) : path[i] = "."}
    IN  IF dots = {} THEN <<>>
        ELSE SubSeq(path, CHOOSE i \in dots : \A j \in dots : j <= i, Len(path))

\* C21: a url is supported exactly when its extension is in the configured
\* list or an extractor other than the generic one declares it suitable.
C21_SupportedIffExtensionOrExtractor ==
    mpc # "start" =>
        ((report # "not_supported")
            <=> (\/ ExtensionOf(link.text) \in SUPPORTED_EXTENSIONS
                 \/ link.suitable \ {"generic"} # {}))

(* ----------------------------- both modes ----------------------------- *)

ModeNext == Next \/ RemoveNext

ModeSpec == Init /\ [][ModeNext]_vars

\* C29: the link fixes the mode.  A session called with a link deletes no
\* message of the channel; a session called without one extracts nothing,
\* submits no job, leaves the progress snapshot alone and publishes nothing.
C29_ModeFixedByLink ==
    /\ link.text # <<>> => deleted = <<>> /\ removed_reports = 0 /\ invocations = 0
    /\ (link.text = <<>> /\ mpc # "start") =>
           /\ extract_calls = 0 /\ prompts = 0
           /\ dl_submits = 0 /\ norm_submits = 0
           /\ ydl_progress = InitialProgress
           /\ publishes = 0 /\ ~published /\ added_reports = 0

\* A session without a link has deleted a message, and nothing of the add
\* flow has happened.
C29_Witness ==
    /\ link.text = <<>> /\ mpc = "done" /\ deleted # <<>>
    /\ extract_calls = 0 /\ dl_submits = 0


(* ---------------------- trimming and normalization -------------------- *)

\* C25: the clip the normalizer is given is never longer than the max trim
\* ceiling, so a source over the publish size is never normalized whole.
C25_ClipWithinCeiling ==
    norm_submits > 0 =>
        ClipSeconds(start_time, end_time, original_duration) <= max_duration

\* C26: a normalization job that ends with an error ends the session Failed
\* with a report: nothing is published and no success is reported.
C26_NormalizationErrorReported ==
    norm_job = "error" =>
        /\ ~published /\ publishes = 0 /\ added_reports = 0
        /\ mpc = "done" => (crashed = "none" /\ report # "none")

\* C27: an accept with both time fields blank takes 0 and the original
\* duration, which parse and pass the validation, so the download is
\* submitted for every source within both size limits, whatever its duration.
C27_BlankDefaultsProceed ==
    (/\ decision = "accept" /\ modal_start = Blank /\ modal_end = Blank
     /\ size <= max_filesize /\ size <= max_download_size)
        => /\ start_time = 0 /\ end_time = original_duration
           /\ dl_submits = 1


(* ------------------------- the frame of a removal --------------------- *)

\* C28: a successful removal changes the listing by the selected clip only:
\* every other listed pair, the other audio attachments of the deleted
\* message among them, is still listed afterwards, and the selected file
\* name is listed no more.
C28_RemovalChangesOnlySelected ==
    (mpc = "done" /\ report = "removed" /\ Len(deleted) = 1) =>
        LET after == get_sound_files(channel)
            sel == FirstMatch(sound_files, dropdown_value)
        IN  /\ \A i \in 1..Len(sound_files) :
                 i # sel => \E j \in 1..Len(after) : after[j] = sound_files[i]
            /\ \A j \in 1..Len(after) :
                 after[j].attachment.filename # dropdown_value


(* ----------------------- the snapshot across sessions ----------------- *)

\* C22: in a sequence of add sessions that do not overlap, a session that
\* reaches normalization has left its polling loop on a dict written by its
\* own download and normalizes and publishes its own download's file; no
\* session starts polling on a "finished" left by an earlier download.
C22_OwnDownloadOnly ==
    /\ norm_file # 0 => (left_on = session_no /\ norm_file = session_no)
    /\ pub_file # 0 => pub_file = session_no
    /\ mpc = "send_status" =>
          ~(ydl_progress.status = "finished" /\ ydl_progress.owner # session_no)

\* C23: nothing is published for a session that timed out, and the download
\* it left in the pool changes nothing of what a later session displays,
\* normalizes or publishes.
C23_OrphanResultDiscarded ==
    /\ crashed = "TimeoutError" => (~published /\ pub_file = 0)
    /\ \A o \in timed_out :
          /\ o \notin shown
          /\ left_on # o /\ norm_file # o /\ pub_file # o


\* C24: the progress snapshot is one slot for all sessions: it is the dict
\* of the download that called the hook last, whichever session submitted
\* it.  So two sessions whose download phases overlap race on it, and the
\* state of C24_Witness is reached.
C24_SnapshotSharedLastWriter == ydl_progress.owner = last_hook

\* This session has shown the second session's progress, left its loop on
\* the second session's "finished", normalized and published the second
\* session's file, and its reset of the status is what the second session,
\* still polling, reads in the dict of its own download.
C24_Witness ==
    /\ (session_no + 1) \in shown
    /\ left_on = session_no + 1 /\ norm_file = session_no + 1
    /\ pub_file = session_no + 1 /\ published
    /\ peer_pc = "polling"
    /\ ydl_progress.status = "" /\ ydl_progress.owner = session_no + 1

====
